---- MODULE Spec2Model ----
(***************************************************************************)
(* A model of generate.py: the CrosswordCreator constraint solver.         *)
(*                                                                         *)
(* solve() = enforce_node_consistency(); ac3(); backtrack(dict()).         *)
(* The crossword (variables, vocabulary, overlaps, neighbors) comes from   *)
(* crossword.py, which is imported by generate.py; it is modelled from the *)
(* data model of the specification (sections 3 and 6).                     *)
(*                                                                         *)
(* Words are sequences of letters; Python's 0-based word[i] is Letter.     *)
(*                                                                         *)
(* Python leaves the iteration order of a set open.  The order of the      *)
(* variables (ac3's initial queue, the arcs it appends, the tie-break of   *)
(* min) is var_order, any permutation, fixed for the run; sets of          *)
(* variables are iterated in that relative order.  The order of words (the *)
(* tie-break of sorted) is word_order.                                     *)
(*                                                                         *)
(* The recursion of backtrack is the stack: one frame per active call,     *)
(* holding the selected variable, the ordered values not tried yet, and    *)
(* the assignment as it was when the call was entered.                     *)
(***************************************************************************)
EXTENDS Integers, Sequences, FiniteSets, TLC

VARIABLES
    crossword,      \* self.crossword: [variables, words, overlaps]
    var_order,      \* iteration order of the set crossword.variables
    word_order,     \* iteration order of a set of words
    domains,        \* self.domains: variable -> set of words
    pc,             \* position inside solve()
    queue,          \* ac3's local worklist of arcs <<x, y>>
    ac3_ret,        \* what ac3() returned: "pending", "True", "False"
    assignment,     \* the dict handed down the backtrack recursion
    stack,          \* the active backtrack() invocations, innermost last
    calls,          \* how many times backtrack() has been entered
    tried,          \* how many candidate values backtrack has assigned
    result,         \* what the backtrack() call that ended last returned
    solve_ret       \* what solve() returned

vars == <<crossword, var_order, word_order, domains, pc, queue, ac3_ret,
          assignment, stack, calls, tried, result, solve_ret>>

\* Python's None.
None == [none |-> TRUE]

---------------------------------------------------------------------------
(* Bounds *)

\* The vocabulary holds at most this many words of WordPool.
MaxVocab == 4

\* A direct call on a drawn domain store has a vocabulary of at most this
\* many words.
MaxStoreVocab == 3

\* The largest vocabulary of a direct call of order_domain_values.
MaxOrderVocab == 4

---------------------------------------------------------------------------
(* The problem instance (crossword.py) *)

ACROSS == "across"
DOWN == "down"

Variable(i, j, direction, length) ==
    [i |-> i, j |-> j, direction |-> direction, length |-> length]

\* The cells a variable covers, in word order.
cells(v) ==
    [k \in 1..v.length |->
        << v.i + (IF v.direction = DOWN THEN k - 1 ELSE 0),
           v.j + (IF v.direction = ACROSS THEN k - 1 ELSE 0) >>]

IndexOf(seq, e) == (CHOOSE k \in 1..Len(seq) : seq[k] = e) - 1

\* Crossword.__init__: the overlap of two variables: None, or the 0-based
\* indices (i, j) of the shared cell in v1 and in v2.
shared_cell(v1, v2) ==
    LET common == {cells(v1)[k] : k \in 1..v1.length}
                    \cap {cells(v2)[k] : k \in 1..v2.length}
    IN  IF common = {} THEN None
        ELSE LET c == CHOOSE c \in common : TRUE
             IN  << IndexOf(cells(v1), c), IndexOf(cells(v2), c) >>

\* Crossword(structure, words): the overlaps are computed once, for every
\* ordered pair of distinct variables.
Crossword(variables, words) ==
    [variables |-> variables,
     words |-> words,
     overlaps |-> [p \in {q \in variables \X variables : q[1] # q[2]} |->
                     shared_cell(p[1], p[2])]]

\* crossword.overlaps[v1, v2]
overlaps(v1, v2) == crossword.overlaps[<<v1, v2>>]

\* crossword.neighbors(var)
neighbors(var) ==
    {v \in crossword.variables : v # var /\ overlaps(v, var) # None}

\* The grids the model draws the instance from.
TwoCrossing ==
    << Variable(0, 0, ACROSS, 3), Variable(0, 1, DOWN, 3) >>

ThreeComb ==
    << Variable(0, 0, ACROSS, 3), Variable(0, 0, DOWN, 2),
       Variable(0, 2, DOWN, 3) >>

FourRing ==
    << Variable(0, 0, ACROSS, 3), Variable(0, 0, DOWN, 3),
       Variable(0, 2, DOWN, 3), Variable(2, 0, ACROSS, 3) >>

TwoApart ==
    << Variable(0, 0, ACROSS, 2), Variable(2, 0, ACROSS, 3) >>

Structures == {<<>>, TwoCrossing, ThreeComb, FourRing, TwoApart}

\* The grids of the direct calls on a drawn domain store.
StoreStructures == Structures \ {FourRing}

\* The words the vocabulary is drawn from.
WordPool ==
    << <<"C", "A", "T">>, <<"C", "A", "R">>, <<"A", "R", "T">>,
       <<"D", "O", "G">>, <<"T", "A", "T">>, <<"R", "A", "T">>,
       <<"A", "T">>, <<"T", "O">> >>

Range(seq) == {seq[k] : k \in 1..Len(seq)}

Reverse(seq) == [k \in 1..Len(seq) |-> seq[Len(seq) + 1 - k]]

\* All orders in which a set may be iterated.
Perms(S) ==
    {f \in [1..Cardinality(S) -> S] :
        \A a, b \in 1..Cardinality(S) : a # b => f[a] # f[b]}

Vocabularies == {V \in SUBSET Range(WordPool) : Cardinality(V) <= MaxVocab}

\* The elements of set S in the order of seq.
InOrder(S, seq) == SelectSeq(seq, LAMBDA e : e \in S)

\* word[i], 0-based
Letter(word, i) == word[i + 1]

---------------------------------------------------------------------------
(* CrosswordCreator: the pure parts *)

\* __init__: every variable starts with a copy of the whole vocabulary.
InitDomains(cw) == [var \in cw.variables |-> cw.words]

\* Mutant of valid_words: the length test is <= instead of ==.
valid_words_at_most(var) == {word \in domains[var] : Len(word) <= var.length}

\* Mutant of valid_words: wrong words are removed from the collection while
\* it is being walked, so the word after each removed one is never tested.
RECURSIVE RemoveWhileWalking(_, _)
RemoveWhileWalking(seq, length) ==
    IF seq = <<>> THEN <<>>
    ELSE IF Len(Head(seq)) = length
         THEN <<Head(seq)>> \o RemoveWhileWalking(Tail(seq), length)
         ELSE IF Len(seq) = 1 THEN <<>>
              ELSE <<seq[2]>>
                     \o RemoveWhileWalking(SubSeq(seq, 3, Len(seq)), length)

valid_words_removed_in_place(var) ==
    Range(RemoveWhileWalking(InOrder(domains[var], word_order), var.length))

\* enforce_node_consistency: the valid_words computed for one variable.
valid_words(var) == {word \in domains[var] : Len(word) = var.length}

enforce_node_consistency == [var \in DOMAIN domains |-> valid_words(var)]

\* Mutant of words_to_remove: all() instead of any(): a word stays only if
\* every word of domains[y] agrees with it.
words_to_remove_unless_all(x, y) ==
    LET overlap == overlaps(x, y)
    IN  IF overlap = None THEN {}
        ELSE {word_x \in domains[x] :
                ~ \A word_y \in domains[y] :
                    word_x[overlap[1] + 1] = word_y[overlap[2] + 1]}

\* Mutant of words_to_remove: the two indices of the overlap are swapped.
words_to_remove_swapped(x, y) ==
    LET overlap == overlaps(x, y)
    IN  IF overlap = None THEN {}
        ELSE {word_x \in domains[x] :
                ~ \E word_y \in domains[y] :
                    Letter(word_x, overlap[2]) = Letter(word_y, overlap[1])}

\* revise(x, y): the set words_to_remove.
words_to_remove(x, y) ==
    LET overlap == overlaps(x, y)
    IN  IF overlap = None THEN {}
        ELSE {word_x \in domains[x] :
                ~ \E word_y \in domains[y] :
                    Letter(word_x, overlap[1]) = Letter(word_y, overlap[2])}

\* Mutant of revise_domains: the new domain of x is built from domains[y].
revise_domains_from_y(x, y) ==
    [domains EXCEPT ![x] = domains[y] \ words_to_remove(x, y)]

\* revise(x, y): the domain store it leaves.
revise_domains(x, y) == [domains EXCEPT ![x] = @ \ words_to_remove(x, y)]

\* Mutant of revise: revised is set for every pair that has an overlap.
revise_whenever_overlap(x, y) == overlaps(x, y) # None

\* revise(x, y): its return value.
revise(x, y) == words_to_remove(x, y) # {}

\* ac3(arcs=None): the initial queue, all arcs (x, y) with y a neighbor of x.
RECURSIVE Flatten(_)
Flatten(seqs) ==
    IF seqs = <<>> THEN <<>> ELSE Head(seqs) \o Flatten(Tail(seqs))

initial_queue ==
    Flatten([k \in 1..Len(var_order) |->
        LET x == var_order[k]
            ys == InOrder(neighbors(x), var_order)
        IN  [m \in 1..Len(ys) |-> <<x, ys[m]>>]])

\* Mutant of requeued: no arc is appended after a revision.
requeued_nothing(x, y) == <<>>

\* ac3: the arcs (z, x) appended after x was revised against y.
requeued(x, y) ==
    LET zs == InOrder(neighbors(x) \ {y}, var_order)
    IN  [m \in 1..Len(zs) |-> <<zs[m], x>>]

\* Mutant of assignment_complete: the variables are looked up among the
\* values of the dict.
assignment_complete_among_values(a) ==
    \A var \in crossword.variables : \E v \in DOMAIN a : a[v] = var

\* assignment_complete(assignment)
assignment_complete(a) == \A var \in crossword.variables : var \in DOMAIN a

\* Mutant of consistent: the distinctness check is left out.
consistent_without_distinct(a) ==
    IF \E var \in DOMAIN a : Len(a[var]) # var.length
    THEN FALSE
    ELSE IF \E var1 \in DOMAIN a : \E var2 \in DOMAIN a :
              /\ var1 # var2
              /\ overlaps(var1, var2) # None
              /\ Letter(a[var1], overlaps(var1, var2)[1])
                    # Letter(a[var2], overlaps(var1, var2)[2])
    THEN FALSE
    ELSE TRUE

\* Mutant of consistent: both words are read at the first index.
consistent_same_index(a) ==
    IF Cardinality({a[var] : var \in DOMAIN a}) # Cardinality(DOMAIN a)
    THEN FALSE
    ELSE IF \E var \in DOMAIN a : Len(a[var]) # var.length
    THEN FALSE
    ELSE IF \E var1 \in DOMAIN a : \E var2 \in DOMAIN a :
              /\ var1 # var2
              /\ overlaps(var1, var2) # None
              /\ Letter(a[var1], overlaps(var1, var2)[1])
                    # Letter(a[var2], overlaps(var1, var2)[1])
    THEN FALSE
    ELSE TRUE

\* consistent(assignment): the three checks, in the code's order.
consistent(a) ==
    IF Cardinality({a[var] : var \in DOMAIN a}) # Cardinality(DOMAIN a)
    THEN FALSE
    ELSE IF \E var \in DOMAIN a : Len(a[var]) # var.length
    THEN FALSE
    ELSE IF \E var1 \in DOMAIN a : \E var2 \in DOMAIN a :
              /\ var1 # var2
              /\ overlaps(var1, var2) # None
              /\ Letter(a[var1], overlaps(var1, var2)[1])
                    # Letter(a[var2], overlaps(var1, var2)[2])
    THEN FALSE
    ELSE TRUE

\* assignment[var] = value
Assign(a, var, value) ==
    [v \in DOMAIN a \cup {var} |-> IF v = var THEN value ELSE a[v]]

\* Mutant of Del: the entry is left in the dict.
Del_nothing(a, var) == a

\* del assignment[var]
Del(a, var) == [v \in DOMAIN a \ {var} |-> a[v]]

\* order_domain_values: constraints[word], the count for one word.
RECURSIVE Sum(_, _)
Sum(f, S) ==
    IF S = {} THEN 0
    ELSE LET e == CHOOSE e \in S : TRUE IN f[e] + Sum(f, S \ {e})

\* Mutant of constraints: neighbors already in the assignment are counted
\* too.
constraints_every_neighbor(var, a, word) ==
    LET count == [neighbor \in neighbors(var) |->
            LET overlap == overlaps(var, neighbor)
            IN  IF overlap = None THEN 0
                ELSE Cardinality({neighbor_word \in domains[neighbor] :
                        Letter(word, overlap[1])
                            # Letter(neighbor_word, overlap[2])})]
    IN  Sum(count, neighbors(var))

constraints(var, a, word) ==
    LET unassigned_neighbors == {n \in neighbors(var) : n \notin DOMAIN a}
        count == [neighbor \in unassigned_neighbors |->
            LET overlap == overlaps(var, neighbor)
            IN  IF overlap = None THEN 0
                ELSE Cardinality({neighbor_word \in domains[neighbor] :
                        Letter(word, overlap[1])
                            # Letter(neighbor_word, overlap[2])})]
    IN  Sum(count, unassigned_neighbors)

\* sorted(iterable, key): Python's sort is stable; elements are inserted
\* after every element whose key is not greater.
RECURSIVE InsertSorted(_, _, _)
InsertSorted(done, e, key) ==
    IF done = <<>> THEN <<e>>
    ELSE IF key[Head(done)] <= key[e]
         THEN <<Head(done)>> \o InsertSorted(Tail(done), e, key)
         ELSE <<e>> \o done

RECURSIVE sorted(_, _)
sorted(seq, key) ==
    IF seq = <<>> THEN <<>>
    ELSE InsertSorted(sorted(SubSeq(seq, 1, Len(seq) - 1), key),
                      seq[Len(seq)], key)

\* order_domain_values(var, assignment)
order_domain_values(var, a) ==
    sorted(InOrder(domains[var], word_order),
           [word \in domains[var] |-> constraints(var, a, word)])

\* Mutant of select_key: the domain size is left out of the key.
select_key_degree_only(var) == << 0, 0 - Cardinality(neighbors(var)) >>

\* Mutant of select_key: the neighbor count is not negated.
select_key_fewest_neighbors(var) ==
    << Cardinality(domains[var]), Cardinality(neighbors(var)) >>

\* select_unassigned_variable: the key of one variable, a pair.
select_key(var) ==
    << Cardinality(domains[var]), 0 - Cardinality(neighbors(var)) >>

\* Python's tuple comparison k1 < k2.
TupleLess(k1, k2) == k1[1] < k2[1] \/ (k1[1] = k2[1] /\ k1[2] < k2[2])

\* min(seq, key): the first element whose key is smallest.
RECURSIVE MinFrom(_, _)
MinFrom(best, rest) ==
    IF rest = <<>> THEN best
    ELSE IF TupleLess(select_key(Head(rest)), select_key(best))
         THEN MinFrom(Head(rest), Tail(rest))
         ELSE MinFrom(best, Tail(rest))

\* select_unassigned_variable(assignment)
select_unassigned_variable(a) ==
    LET unassigned == SelectSeq(var_order, LAMBDA var : var \notin DOMAIN a)
    IN  IF unassigned = <<>> THEN None
        ELSE MinFrom(Head(unassigned), Tail(unassigned))

---------------------------------------------------------------------------
(* solve(): the state machine *)

\* A return value: None, or an assignment (which may be the empty dict).
Returned(kind, value) == [kind |-> kind, value |-> value]

NoReturn == Returned("pending", None)

\* CrosswordCreator(crossword), before solve() is called.
Init ==
    /\ \E structure \in Structures, words \in Vocabularies :
          /\ crossword = Crossword(Range(structure), words)
          /\ var_order \in Perms(Range(structure))
          /\ word_order \in {WordPool, Reverse(WordPool)}
    /\ domains = InitDomains(crossword)
    /\ pc = "enforce_node_consistency"
    /\ queue = <<>>
    /\ ac3_ret = "pending"
    /\ assignment = <<>>
    /\ stack = <<>>
    /\ calls = 0
    /\ tried = 0
    /\ result = NoReturn
    /\ solve_ret = NoReturn

\* solve, line 92: self.enforce_node_consistency()
EnforceNodeConsistency ==
    /\ pc = "enforce_node_consistency"
    /\ domains' = enforce_node_consistency
    /\ pc' = "ac3"
    /\ UNCHANGED <<crossword, var_order, word_order, queue, ac3_ret,
                   assignment, stack, calls, tried, result, solve_ret>>

\* solve, line 93: self.ac3() is entered; arcs is None.
Ac3Begin ==
    /\ pc = "ac3"
    /\ queue' = initial_queue
    /\ pc' = "ac3_loop"
    /\ UNCHANGED <<crossword, var_order, word_order, domains, ac3_ret,
                   assignment, stack, calls, tried, result, solve_ret>>

\* Mutant of Ac3Unrevised: the arc is read from the front of the queue and
\* left there.
Ac3Unrevised_not_popped ==
    /\ pc = "ac3_loop"
    /\ queue # <<>>
    /\ LET x == Head(queue)[1]
           y == Head(queue)[2]
       IN  /\ ~ revise(x, y)
           /\ domains' = revise_domains(x, y)
           /\ queue' = queue
    /\ UNCHANGED <<crossword, var_order, word_order, pc, ac3_ret,
                   assignment, stack, calls, tried, result, solve_ret>>

\* ac3, lines 164-168: an arc is popped and revise changes nothing.
Ac3Unrevised ==
    /\ pc = "ac3_loop"
    /\ queue # <<>>
    /\ LET x == Head(queue)[1]
           y == Head(queue)[2]
       IN  /\ ~ revise(x, y)
           /\ domains' = revise_domains(x, y)
           /\ queue' = Tail(queue)
    /\ UNCHANGED <<crossword, var_order, word_order, pc, ac3_ret,
                   assignment, stack, calls, tried, result, solve_ret>>

\* ac3, lines 164-171: the revision empties domains[x]: return False.
\* solve() drops the value and goes on to line 94.
Ac3Fail ==
    /\ pc = "ac3_loop"
    /\ queue # <<>>
    /\ LET x == Head(queue)[1]
           y == Head(queue)[2]
       IN  /\ revise(x, y)
           /\ Cardinality(revise_domains(x, y)[x]) = 0
           /\ domains' = revise_domains(x, y)
    /\ queue' = <<>>
    /\ ac3_ret' = "False"
    /\ pc' = "backtrack"
    /\ UNCHANGED <<crossword, var_order, word_order,
                   assignment, stack, calls, tried, result, solve_ret>>

\* ac3, lines 164-175: the revision leaves words: the arcs (z, x) are appended.
Ac3Requeue ==
    /\ pc = "ac3_loop"
    /\ queue # <<>>
    /\ LET x == Head(queue)[1]
           y == Head(queue)[2]
       IN  /\ revise(x, y)
           /\ Cardinality(revise_domains(x, y)[x]) # 0
           /\ domains' = revise_domains(x, y)
           /\ queue' = Tail(queue) \o requeued(x, y)
    /\ UNCHANGED <<crossword, var_order, word_order, pc, ac3_ret,
                   assignment, stack, calls, tried, result, solve_ret>>

\* ac3, line 177: the queue is empty: return True.
Ac3Done ==
    /\ pc = "ac3_loop"
    /\ queue = <<>>
    /\ ac3_ret' = "True"
    /\ pc' = "backtrack"
    /\ UNCHANGED <<crossword, var_order, word_order, domains, queue,
                   assignment, stack, calls, tried, result, solve_ret>>

\* solve, line 94: self.backtrack(dict())
SolveBacktrack ==
    /\ pc = "backtrack"
    /\ assignment' = <<>>
    /\ pc' = "call"
    /\ UNCHANGED <<crossword, var_order, word_order, domains, queue, ac3_ret,
                   stack, calls, tried, result, solve_ret>>

\* backtrack, lines 285-286: the assignment is complete and is returned.
BacktrackComplete ==
    /\ pc = "call"
    /\ assignment_complete(assignment)
    /\ calls' = calls + 1
    /\ result' = Returned("assignment", assignment)
    /\ pc' = "returned"
    /\ UNCHANGED <<crossword, var_order, word_order, domains, queue, ac3_ret,
                   assignment, stack, tried, solve_ret>>

\* backtrack, lines 289-292: a variable is selected and its values ordered.
\* A selection of None makes order_domain_values raise (self.domains[None]).
BacktrackSelect ==
    /\ pc = "call"
    /\ ~ assignment_complete(assignment)
    /\ calls' = calls + 1
    /\ LET var == select_unassigned_variable(assignment)
       IN  IF var = None
           THEN /\ pc' = "raised"
                /\ stack' = stack
           ELSE /\ pc' = "loop"
                /\ stack' = Append(stack,
                      [var |-> var,
                       values |-> order_domain_values(var, assignment),
                       entry |-> assignment])
    /\ UNCHANGED <<crossword, var_order, word_order, domains, queue, ac3_ret,
                   assignment, result, tried, solve_ret>>

Top == stack[Len(stack)]

SetTop(frame) == [stack EXCEPT ![Len(stack)] = frame]

Pop == SubSeq(stack, 1, Len(stack) - 1)

\* Mutant of BacktrackDescend: the domain of the variable is narrowed to the
\* value it was given before the recursive call.
BacktrackDescend_narrowing ==
    /\ pc = "loop"
    /\ Top.values # <<>>
    /\ LET value == Head(Top.values)
           extended == Assign(assignment, Top.var, value)
       IN  /\ consistent(extended)
           /\ assignment' = extended
           /\ domains' = [domains EXCEPT ![Top.var] = {value}]
    /\ stack' = SetTop([Top EXCEPT !.values = Tail(@)])
    /\ tried' = tried + 1
    /\ pc' = "call"
    /\ UNCHANGED <<crossword, var_order, word_order, queue, ac3_ret,
                   result, calls, solve_ret>>

\* backtrack, lines 292-299: the next value is assigned and is consistent:
\* backtrack is called on the extended assignment.
BacktrackDescend ==
    /\ pc = "loop"
    /\ Top.values # <<>>
    /\ LET value == Head(Top.values)
           extended == Assign(assignment, Top.var, value)
       IN  /\ consistent(extended)
           /\ assignment' = extended
    /\ stack' = SetTop([Top EXCEPT !.values = Tail(@)])
    /\ tried' = tried + 1
    /\ pc' = "call"
    /\ UNCHANGED <<crossword, var_order, word_order, domains, queue, ac3_ret,
                   result, calls, solve_ret>>

\* backtrack, lines 292-297 and 304: the next value is assigned, is not
\* consistent, and is deleted again.
BacktrackReject ==
    /\ pc = "loop"
    /\ Top.values # <<>>
    /\ LET value == Head(Top.values)
           extended == Assign(assignment, Top.var, value)
       IN  /\ ~ consistent(extended)
           /\ assignment' = Del(extended, Top.var)
    /\ stack' = SetTop([Top EXCEPT !.values = Tail(@)])
    /\ tried' = tried + 1
    /\ UNCHANGED <<crossword, var_order, word_order, domains, pc, queue,
                   ac3_ret, result, calls, solve_ret>>

\* Mutant of exhausted_result: the assignment is returned instead of None.
exhausted_result_assignment(a) == Returned("assignment", a)

\* backtrack, line 307: what is returned once no value is left.
exhausted_result(a) == Returned("None", None)

\* backtrack, line 307: no value is left: return None.
BacktrackExhausted ==
    /\ pc = "loop"
    /\ Top.values = <<>>
    /\ result' = exhausted_result(assignment)
    /\ stack' = Pop
    /\ pc' = "returned"
    /\ UNCHANGED <<crossword, var_order, word_order, domains, queue, ac3_ret,
                   assignment, calls, tried, solve_ret>>

\* backtrack, lines 299-301: the recursive call returned an assignment: the
\* caller returns it.
BacktrackPropagate ==
    /\ pc = "returned"
    /\ stack # <<>>
    /\ result.kind # "None"
    /\ stack' = Pop
    /\ UNCHANGED <<crossword, var_order, word_order, domains, pc, queue,
                   ac3_ret, assignment, result, calls, tried, solve_ret>>

\* backtrack, lines 299-304: the recursive call returned None: the caller
\* deletes its value and goes on with the loop.
BacktrackRetract ==
    /\ pc = "returned"
    /\ stack # <<>>
    /\ result.kind = "None"
    /\ assignment' = Del(assignment, Top.var)
    /\ pc' = "loop"
    /\ UNCHANGED <<crossword, var_order, word_order, domains, queue, ac3_ret,
                   stack, result, calls, tried, solve_ret>>

\* solve, line 94: the outermost backtrack returned, and solve returns its
\* result.
SolveReturn ==
    /\ pc = "returned"
    /\ stack = <<>>
    /\ solve_ret' = result
    /\ pc' = "done"
    /\ UNCHANGED <<crossword, var_order, word_order, domains, queue, ac3_ret,
                   assignment, stack, result, calls, tried>>

Next ==
    \/ EnforceNodeConsistency
    \/ Ac3Begin
    \/ Ac3Unrevised
    \/ Ac3Fail
    \/ Ac3Requeue
    \/ Ac3Done
    \/ SolveBacktrack
    \/ BacktrackComplete
    \/ BacktrackSelect
    \/ BacktrackDescend
    \/ BacktrackReject
    \/ BacktrackExhausted
    \/ BacktrackPropagate
    \/ BacktrackRetract
    \/ SolveReturn

Spec == Init /\ [][Next]_vars

---------------------------------------------------------------------------
(* Direct calls of consistent(assignment), on any assignment *)

\* Every dict from some of the variables to words of the vocabulary.
PartialAssignments ==
    UNION {[S -> crossword.words] : S \in SUBSET crossword.variables}

InitChecker ==
    /\ \E structure \in Structures, words \in Vocabularies :
          /\ crossword = Crossword(Range(structure), words)
          /\ var_order = structure
    /\ word_order = WordPool
    /\ domains = InitDomains(crossword)
    /\ assignment \in PartialAssignments
    /\ pc = "consistent"
    /\ queue = <<>>
    /\ ac3_ret = "pending"
    /\ stack = <<>>
    /\ calls = 0
    /\ tried = 0
    /\ result = NoReturn
    /\ solve_ret = NoReturn

\* consistent(assignment) is called and returns.
CallConsistent ==
    /\ pc = "consistent"
    /\ result' = Returned("bool", consistent(assignment))
    /\ pc' = "checked"
    /\ UNCHANGED <<crossword, var_order, word_order, domains, queue, ac3_ret,
                   assignment, stack, calls, tried, solve_ret>>

NextChecker == CallConsistent

SpecChecker == InitChecker /\ [][NextChecker]_vars

---------------------------------------------------------------------------
(* Direct calls on any node-consistent domain store *)

StoreVocabularies ==
    {V \in SUBSET Range(WordPool) : Cardinality(V) <= MaxStoreVocab}

\* The stores that hold, for each variable, some vocabulary words of its
\* length.
Stores(cw) ==
    {d \in [cw.variables -> SUBSET cw.words] :
        \A v \in cw.variables : \A w \in d[v] : Len(w) = v.length}

\* The first word of a set in iteration order.
FirstWord(S) == Head(InOrder(S, word_order))

StoreCall(start) ==
    /\ \E structure \in StoreStructures, words \in StoreVocabularies :
          /\ crossword = Crossword(Range(structure), words)
          /\ var_order \in Perms(Range(structure))
    /\ word_order = WordPool
    /\ domains \in Stores(crossword)
    /\ \E S \in SUBSET {v \in crossword.variables : domains[v] # {}} :
          assignment = [v \in S |-> FirstWord(domains[v])]
    /\ pc = start
    /\ queue = <<>>
    /\ ac3_ret = "pending"
    /\ stack = <<>>
    /\ calls = 0
    /\ tried = 0
    /\ result = NoReturn
    /\ solve_ret = NoReturn

InitStore == StoreCall("select")

\* select_unassigned_variable(assignment) is called and returns.
CallSelect ==
    /\ pc = "select"
    /\ result' = Returned("variable", select_unassigned_variable(assignment))
    /\ pc' = "selected"
    /\ UNCHANGED <<crossword, var_order, word_order, domains, queue, ac3_ret,
                   assignment, stack, calls, tried, solve_ret>>

NextStore == CallSelect

SpecStore == InitStore /\ [][NextStore]_vars

\* order_domain_values(var, assignment) is called and returns.
\* The variable order plays no part in it; the word order does.
OrderVocabularies ==
    {V \in SUBSET Range(WordPool) : Cardinality(V) <= MaxOrderVocab}

InitOrder ==
    /\ \E structure \in StoreStructures, words \in OrderVocabularies :
          /\ crossword = Crossword(Range(structure), words)
          /\ var_order = structure
    /\ word_order \in {WordPool, Reverse(WordPool)}
    /\ domains \in Stores(crossword)
    /\ \E S \in SUBSET {v \in crossword.variables : domains[v] # {}} :
          assignment = [v \in S |-> FirstWord(domains[v])]
    /\ pc = "order_domain_values"
    /\ queue = <<>>
    /\ ac3_ret = "pending"
    /\ stack = <<>>
    /\ calls = 0
    /\ tried = 0
    /\ result = NoReturn
    /\ solve_ret = NoReturn

CallOrder ==
    /\ pc = "order_domain_values"
    /\ \E var \in crossword.variables \ DOMAIN assignment :
          result' = Returned("values",
                        [var |-> var,
                         values |-> order_domain_values(var, assignment)])
    /\ pc' = "ordered"
    /\ UNCHANGED <<crossword, var_order, word_order, domains, queue, ac3_ret,
                   assignment, stack, calls, tried, solve_ret>>

NextOrder == CallOrder

SpecOrder == InitOrder /\ [][NextOrder]_vars

\* revise(x, y) is called on two different variables and returns.  Neither
\* iteration order nor any assignment plays a part in it.
InitRevise ==
    /\ \E structure \in StoreStructures, words \in StoreVocabularies :
          /\ crossword = Crossword(Range(structure), words)
          /\ var_order = structure
    /\ word_order = WordPool
    /\ domains \in Stores(crossword)
    /\ assignment = <<>>
    /\ pc = "revise"
    /\ queue = <<>>
    /\ ac3_ret = "pending"
    /\ stack = <<>>
    /\ calls = 0
    /\ tried = 0
    /\ result = NoReturn
    /\ solve_ret = NoReturn

CallRevise ==
    /\ pc = "revise"
    /\ \E x \in crossword.variables, y \in crossword.variables :
          /\ x # y
          /\ result' = Returned("bool",
                           [x |-> x, y |-> y, revised |-> revise(x, y)])
          /\ domains' = revise_domains(x, y)
    /\ pc' = "revised"
    /\ UNCHANGED <<crossword, var_order, word_order, queue, ac3_ret,
                   assignment, stack, calls, tried, solve_ret>>

NextRevise == CallRevise

SpecRevise == InitRevise /\ [][NextRevise]_vars

---------------------------------------------------------------------------
(* ac3(arcs) on its own, from any initial list of arcs *)

\* The longest list passed as arcs.
MaxArcs == 2

Arcs ==
    {arc \in crossword.variables \X crossword.variables : arc[1] # arc[2]}

\* list(arcs) for every short list of arcs, and the list built when arcs is
\* None.
Worklists ==
    UNION {[1..n -> Arcs] : n \in 0..MaxArcs} \cup {initial_queue}

InitAc3 ==
    /\ \E structure \in Structures, words \in StoreVocabularies :
          /\ crossword = Crossword(Range(structure), words)
          /\ var_order = structure
    /\ word_order = WordPool
    /\ domains = [var \in crossword.variables |->
                     {word \in crossword.words : Len(word) = var.length}]
    /\ queue \in Worklists
    /\ pc = "ac3_loop"
    /\ assignment = <<>>
    /\ ac3_ret = "pending"
    /\ stack = <<>>
    /\ calls = 0
    /\ tried = 0
    /\ result = NoReturn
    /\ solve_ret = NoReturn

NextAc3 ==
    \/ Ac3Unrevised
    \/ Ac3Fail
    \/ Ac3Requeue
    \/ Ac3Done

\* The loop is sequential code: whenever it can take a step it takes one.
FairAc3 == InitAc3 /\ [][NextAc3]_vars /\ WF_vars(NextAc3)

---------------------------------------------------------------------------
(* What the specification calls complete and consistent (section 3) *)

Covers(a) == DOMAIN a = crossword.variables

PairwiseDistinct(a) ==
    \A v1 \in DOMAIN a : \A v2 \in DOMAIN a : v1 # v2 => a[v1] # a[v2]

LengthsMatch(a) == \A v \in DOMAIN a : Len(a[v]) = v.length

OverlapsAgree(a) ==
    \A v1 \in DOMAIN a : \A v2 \in DOMAIN a :
        (v1 # v2 /\ overlaps(v1, v2) # None) =>
            a[v1][overlaps(v1, v2)[1] + 1] = a[v2][overlaps(v1, v2)[2] + 1]

Valid(a) == PairwiseDistinct(a) /\ LengthsMatch(a) /\ OverlapsAgree(a)

\* Every complete assignment of vocabulary words that violates no constraint.
Solutions ==
    {a \in [crossword.variables -> crossword.words] : Valid(a)}

\* The words of the vocabulary that have the length of var.
RightLength(var) == {w \in crossword.words : Len(w) = var.length}

\* Arc consistency of the domain store (section 3).
ArcConsistent ==
    \A x \in crossword.variables : \A y \in crossword.variables :
        (x # y /\ overlaps(x, y) # None) =>
            \A w \in domains[x] : \E w2 \in domains[y] :
                w[overlaps(x, y)[1] + 1] = w2[overlaps(x, y)[2] + 1]

SomeDomainEmpty == \E v \in crossword.variables : domains[v] = {}

---------------------------------------------------------------------------
(* Claims *)

\* C1 (soundness): whenever solve() returns an assignment, it maps every
\* variable to a vocabulary word, the words are pairwise distinct, each has
\* its variable's length, overlapping words agree on the shared letter, and
\* assignment_complete and consistent both accept it.
C1_Soundness ==
    solve_ret.kind = "assignment" =>
        LET a == solve_ret.value
        IN  /\ Covers(a)
            /\ \A v \in DOMAIN a : a[v] \in crossword.words
            /\ Valid(a)
            /\ assignment_complete(a)
            /\ consistent(a)

\* solve() returned a filling of the four-variable ring, after some value
\* had been retracted.
C1_Witness ==
    /\ solve_ret.kind = "assignment"
    /\ Cardinality(crossword.variables) = 4
    /\ tried > 4

\* C2 (completeness): solve() returns an assignment exactly when some
\* complete consistent assignment of vocabulary words exists, returns None
\* only when none exists, and never raises on the way.
C2_Completeness ==
    /\ pc # "raised"
    /\ pc = "done" =>
        /\ solve_ret.kind \in {"assignment", "None"}
        /\ Solutions # {} => solve_ret.kind = "assignment"
        /\ solve_ret.kind = "None" => Solutions = {}

\* solve() found a solution of an instance in which ac3 had pruned a domain
\* and the search had to retract a value.
C2_Witness ==
    /\ pc = "done"
    /\ Solutions # {}
    /\ solve_ret.kind = "assignment"
    /\ \E v \in crossword.variables : domains[v] # RightLength(v)
    /\ tried > Cardinality(crossword.variables)

\* C3 as claimed: when ac3 reports failure, backtrack is never invoked.
C3_ShortCircuit == ac3_ret = "False" => calls = 0

\* C3 as the code has it: when ac3 reports failure, solve() still calls
\* backtrack once; that call assigns no candidate value and returns None,
\* which solve() returns.
C3_FailsWithoutSearch ==
    (ac3_ret = "False" /\ pc = "done") =>
        /\ solve_ret.kind = "None"
        /\ calls = 1
        /\ tried = 0

\* solve() has returned after ac3 failed on an instance in which another
\* variable still has candidate words.
C3_Witness ==
    /\ ac3_ret = "False"
    /\ pc = "done"
    /\ \E v \in crossword.variables : domains[v] # {}

\* C4 as claimed: at its return, ac3 has returned True only if the store is
\* arc consistent with no domain empty, and has returned False whenever some
\* domain is empty.
C4_Ac3ReturnValue ==
    pc = "backtrack" =>
        /\ ac3_ret = "True" => (ArcConsistent /\ ~ SomeDomainEmpty)
        /\ SomeDomainEmpty => ac3_ret = "False"

\* C5: when node consistency leaves some variable without any word, solve()
\* returns None and never an assignment.
C5_Malformed ==
    (pc = "done" /\ \E v \in crossword.variables : RightLength(v) = {}) =>
        solve_ret.kind = "None"

\* solve() has returned on an instance where one variable has no word of its
\* length while another has.
C5_Witness ==
    /\ pc = "done"
    /\ \E v \in crossword.variables : RightLength(v) = {}
    /\ \E v \in crossword.variables : RightLength(v) # {}

\* C6: after ac3 (default worklist) returned True, every word of domains[x]
\* has a word of domains[y] agreeing on the shared cell, for every
\* overlapping ordered pair (x, y).
C6_ArcConsistency == ac3_ret = "True" => ArcConsistent

\* ac3 returned True after pruning a domain that it left non-empty.
C6_Witness ==
    /\ ac3_ret = "True"
    /\ \E v \in crossword.variables :
          domains[v] # {} /\ domains[v] # RightLength(v)

\* C7: no step of solve() adds a word to any domain: every domain after a
\* step is a subset of the domain before it.
C7_Monotone ==
    [][\A v \in DOMAIN domains : domains'[v] \subseteq domains[v]]_vars

\* The search runs on a store that both node consistency and ac3 have
\* shrunk.
C7_Witness ==
    /\ pc = "loop"
    /\ \E v \in crossword.variables :
          /\ RightLength(v) # crossword.words
          /\ domains[v] # RightLength(v)
          /\ domains[v] # {}

\* C8: consistent(assignment) is True exactly when no two assigned words
\* are equal, every assigned word has its variable's length, and every
\* overlapping pair of assigned variables agrees on the shared letter;
\* only the variables in the assignment are looked at.
C8_CheckerAgreement ==
    pc = "checked" => (result.value <=> Valid(assignment))

\* consistent accepted a partial assignment that fills two overlapping
\* variables and leaves another one out.
C8_Witness ==
    /\ pc = "checked"
    /\ result.value = TRUE
    /\ \E v1 \in DOMAIN assignment : \E v2 \in DOMAIN assignment :
          v1 # v2 /\ overlaps(v1, v2) # None
    /\ DOMAIN assignment # crossword.variables

\* C9: once enforce_node_consistency has run on the fresh store, each domain
\* is exactly the set of vocabulary words of the variable's length.
C9_NodeConsistency ==
    pc = "ac3" => \A v \in crossword.variables : domains[v] = RightLength(v)

\* Node consistency has removed a word from one domain and kept another in
\* it.
C9_Witness ==
    /\ pc = "ac3"
    /\ \E v \in crossword.variables :
          domains[v] # {} /\ domains[v] # crossword.words

\* C10: select_unassigned_variable returns None exactly when every variable
\* is in the assignment; otherwise it returns a variable outside the
\* assignment, and no unassigned variable has a smaller domain, or an equal
\* domain and more neighbors.
C10_Selection ==
    pc = "selected" =>
        LET r == result.value
            unassigned == crossword.variables \ DOMAIN assignment
        IN  /\ r = None <=> unassigned = {}
            /\ r # None =>
                /\ r \in unassigned
                /\ \A u \in unassigned :
                    /\ Cardinality(domains[u]) >= Cardinality(domains[r])
                    /\ Cardinality(domains[u]) = Cardinality(domains[r]) =>
                        Cardinality(neighbors(u)) <= Cardinality(neighbors(r))

\* The selected variable beat one of a larger domain, and one of equal
\* domain size with fewer neighbors.
C10_Witness ==
    /\ pc = "selected"
    /\ result.value # None
    /\ \E u \in crossword.variables \ DOMAIN assignment :
          Cardinality(domains[u]) > Cardinality(domains[result.value])
    /\ \E u \in crossword.variables \ DOMAIN assignment :
          /\ Cardinality(domains[u]) = Cardinality(domains[result.value])
          /\ Cardinality(neighbors(u)) < Cardinality(neighbors(result.value))

---------------------------------------------------------------------------
(* C11: order_domain_values(var, assignment) returns every word of
   domains[var] exactly once, in non-decreasing order of its conflict
   count: the number of pairs (neighbor, neighbor word), over the neighbors
   of var that are not in the assignment and the words of their domains,
   whose letters differ at the shared cell.  Neighbors in the assignment
   contribute nothing. *)

ConflictPairs(var, a, word) ==
    {p \in UNION {{<<n, w>> : w \in domains[n]} :
                    n \in neighbors(var) \ DOMAIN a} :
        word[overlaps(var, p[1])[1] + 1] # p[2][overlaps(var, p[1])[2] + 1]}

C11_ValueOrdering ==
    pc = "ordered" =>
        LET var == result.value.var
            values == result.value.values
            n == Len(values)
        IN  /\ Range(values) = domains[var]
            /\ n = Cardinality(domains[var])
            /\ \A k \in 1..(n - 1) :
                  Cardinality(ConflictPairs(var, assignment, values[k]))
                    <= Cardinality(ConflictPairs(var, assignment,
                                                 values[k + 1]))

\* A call whose words differ in their counts while an assigned neighbor
\* holds words that would have levelled the counts had they been counted.
C11_Witness ==
    /\ pc = "ordered"
    /\ LET var == result.value.var
           values == result.value.values
       IN  /\ Len(values) = 2
           /\ Cardinality(ConflictPairs(var, assignment, values[1]))
                 < Cardinality(ConflictPairs(var, assignment, values[2]))
           /\ Cardinality(ConflictPairs(var, <<>>, values[1]))
                 >= Cardinality(ConflictPairs(var, <<>>, values[2]))

---------------------------------------------------------------------------
(* C12: with A of length 3 ACROSS and B of length 3 DOWN that overlap at
   A's index 1 and B's index 0, and the vocabulary {CAT, CAR, ART},
   solve() returns an assignment in which both words have length 3 and
   A[1] = B[0]. *)

ExampleA == TwoCrossing[1]
ExampleB == TwoCrossing[2]

ExampleGrid ==
    /\ crossword.variables = {ExampleA, ExampleB}
    /\ ExampleA.direction = ACROSS /\ ExampleA.length = 3
    /\ ExampleB.direction = DOWN /\ ExampleB.length = 3
    /\ overlaps(ExampleA, ExampleB) = <<1, 0>>

SatisfiableExample ==
    /\ ExampleGrid
    /\ crossword.words =
          {<<"C", "A", "T">>, <<"C", "A", "R">>, <<"A", "R", "T">>}

C12_SatisfiableExample ==
    (SatisfiableExample /\ pc = "done") =>
        /\ solve_ret.kind = "assignment"
        /\ DOMAIN solve_ret.value = {ExampleA, ExampleB}
        /\ Len(solve_ret.value[ExampleA]) = 3
        /\ Len(solve_ret.value[ExampleB]) = 3
        /\ solve_ret.value[ExampleA][2] = solve_ret.value[ExampleB][1]

\* solve() has returned on the example, after a search that tried words.
C12_Witness == SatisfiableExample /\ pc = "done" /\ tried >= 2

---------------------------------------------------------------------------
(* C13: with the same two variables and the vocabulary {CAT, DOG},
   solve() returns None. *)

UnsatisfiableExample ==
    /\ ExampleGrid
    /\ crossword.words = {<<"C", "A", "T">>, <<"D", "O", "G">>}

C13_UnsatisfiableExample ==
    (UnsatisfiableExample /\ pc = "done") =>
        (solve_ret.kind = "None" /\ solve_ret.value = None)

\* solve() has returned on the example.
C13_Witness == UnsatisfiableExample /\ pc = "done" /\ calls = 1

---------------------------------------------------------------------------
(* C14: running enforce_node_consistency again, on any domain store it has
   already been applied to, changes no domain. *)

C14_NodeConsistencyIdempotent ==
    pc # "enforce_node_consistency" => enforce_node_consistency = domains

\* The first run has just removed words from a domain and left others.
C14_Witness ==
    /\ pc = "ac3"
    /\ \E var \in crossword.variables :
          /\ domains[var] # {}
          /\ domains[var] # InitDomains(crossword)[var]

---------------------------------------------------------------------------
(* C15: for x and y with overlap (i, j), revise(x, y) removes from
   domains[x] exactly the words that no word of domains[y] supports (none
   has at index j the letter the word has at index i), leaves domains[y]
   and every other domain as they were, and returns True exactly when it
   removed a word.  With no overlap it changes nothing and returns False. *)

Supported(word, x, y, d) ==
    \E other \in d[y] :
        word[overlaps(x, y)[1] + 1] = other[overlaps(x, y)[2] + 1]

C15_Revise ==
    [][(pc = "revise" /\ pc' = "revised") =>
        LET x == result'.value.x
            y == result'.value.y
        IN  IF overlaps(x, y) # None
            THEN /\ domains'[x] =
                       {word \in domains[x] : Supported(word, x, y, domains)}
                 /\ \A v \in crossword.variables \ {x} :
                       domains'[v] = domains[v]
                 /\ result'.value.revised = (domains'[x] # domains[x])
            ELSE /\ domains' = domains
                 /\ result'.value.revised = FALSE]_vars

\* A call on an overlapping pair that returned True and left a word in
\* domains[x], with two words in domains[y].
C15_Witness ==
    /\ pc = "revised"
    /\ overlaps(result.value.x, result.value.y) # None
    /\ domains[result.value.x] # {}
    /\ Cardinality(domains[result.value.y]) >= 2
    /\ result.value.revised = TRUE

---------------------------------------------------------------------------
(* C16: whenever backtrack(assignment) returns None, the assignment is
   exactly what it was when that call was entered: each tentative entry is
   taken out again, after an inconsistent extension and after a failed
   recursive call alike, before the next candidate is tried or the call
   returns. *)

\* The dict without the entry of var, if it has one.
Without(a, var) == [v \in DOMAIN a \ {var} |-> a[v]]

C16_UndoDiscipline ==
    /\ pc = "loop" => assignment = Top.entry
    /\ (pc = "returned" /\ result.kind = "None") =>
          IF stack = <<>>
          THEN assignment = <<>>
          ELSE /\ Top.var \in DOMAIN assignment
               /\ Top.var \notin DOMAIN Top.entry
               /\ Without(assignment, Top.var) = Top.entry

\* An inner call has returned None to a caller that had entered with an
\* assignment of its own, after an inconsistent extension had been tried.
C16_Witness ==
    /\ pc = "returned"
    /\ result.kind = "None"
    /\ stack # <<>>
    /\ Top.entry # <<>>
    /\ tried > calls

---------------------------------------------------------------------------
(* C17: for every finite instance and every initial list of arcs, the loop
   of ac3 terminates: ac3 returns. *)

C17_Ac3Terminates == <>(ac3_ret # "pending")

\* ac3 has returned True after revisions that removed words and left
\* others, which put arcs back on the queue.
C17_Witness ==
    /\ ac3_ret = "True"
    /\ \E var \in crossword.variables :
          /\ domains[var] # {}
          /\ domains[var] # {word \in crossword.words : Len(word) = var.length}

---------------------------------------------------------------------------
(* C18: in every call of backtrack that solve() gives rise to, if the
   assignment is not complete then select_unassigned_variable returns a
   variable, never None. *)

C18_SelectionNeverFails ==
    /\ pc # "raised"
    /\ (pc = "call" /\ ~ Covers(assignment)) =>
          select_unassigned_variable(assignment)
              \in crossword.variables \ DOMAIN assignment
    /\ pc = "loop" => Top.var \in crossword.variables \ DOMAIN Top.entry

\* An inner call of backtrack is about to select, with a variable assigned
\* and another one left.
C18_Witness ==
    /\ pc = "call"
    /\ assignment # <<>>
    /\ ~ Covers(assignment)

---------------------------------------------------------------------------
(* C19: from the moment solve() enters backtrack until it returns, no
   domain changes: the store is changed only by enforce_node_consistency
   and by the one ac3 pass before the search. *)

C19_NoPropagationInSearch ==
    [][/\ pc \in {"backtrack", "call", "loop", "returned"}
            => domains' = domains
       /\ domains' # domains
            => pc \in {"enforce_node_consistency", "ac3_loop"}]_vars

\* The search has assigned and deleted words on a store that ac3 pruned.
C19_Witness ==
    /\ pc = "returned"
    /\ tried >= 2
    /\ calls >= 2
    /\ \E var \in crossword.variables :
          /\ domains[var] # {}
          /\ domains[var] # RightLength(var)

---------------------------------------------------------------------------
(* C20: ac3 never removes a word that takes part in a solution: every
   complete consistent assignment whose words lie in the domains before
   ac3 has all its words in the domains after it, whether ac3 returns True
   or returns False early. *)

Within(a, d) == \A v \in DOMAIN a : a[v] \in d[v]

C20_PruningPreservesSolutions ==
    [][(pc = "ac3_loop" /\ domains' # domains) =>
          \A a \in Solutions : Within(a, domains) => Within(a, domains')]_vars

\* ac3 has returned after removing words, and a solution exists.
C20_Witness ==
    /\ pc = "backtrack"
    /\ Solutions # {}
    /\ \E var \in crossword.variables : domains[var] # RightLength(var)

====
